---- MODULE Spec2Model ----
(***************************************************************************)
(* A model of the users CRUD service of src/main.go: the resolution of the *)
(* connection descriptor, the bounded ping/backoff loop of initDB, main's  *)
(* fatal abort or route registration, and the four request handlers        *)
(* running concurrently against one users table.                           *)
(***************************************************************************)
EXTENDS Integers, Sequences, FiniteSets, TLC

VARIABLES
    env,        \* the process environment: a partial map from variable names to text
    mpc,        \* position of main/initDB: start, ping, sleep, returned, fatal, serving
    psqlInfo,   \* initDB's connection descriptor
    db,         \* the global handle: "nil" or "open"
    i,          \* initDB's loop counter
    err,        \* initDB's local err (the last ping's error)
    initErr,    \* the value initDB returned to main
    events,     \* what initDB did so far: ping n with its outcome, sleep of n seconds
    routes,     \* the routes registered on the router
    listen,     \* the address handed to r.Run
    table,      \* the users table: a sequence of rows, in storage order
    seq,        \* the last value drawn from the serial sequence of users.id
    hs,         \* the handler goroutines: idle, or between createUser's bind and INSERT
    last,       \* the exchange finished last: request, response, errors returned
    issued,     \* the ids returned by successful POSTs, in order
    intact,     \* id and payload of each successful POST whose row no later
                \* UPDATE or DELETE statement has changed
    served      \* whether a response was ever written

vars == <<env, mpc, psqlInfo, db, i, err, initErr, events, routes, listen,
          table, seq, hs, last, issued, intact, served>>

startupVars == <<env, mpc, psqlInfo, db, i, err, initErr, events, routes, listen>>
serveVars == <<table, seq, hs, last, issued, intact, served>>

(***************************************************************************)
(* Bounds and program constants                                            *)
(***************************************************************************)
maxRetries == 5

MaxSeq == 2

NoErr == ""

(***************************************************************************)
(* Configuration: os.Getenv, getEnv and the descriptor of initDB           *)
(***************************************************************************)
DbKeys == <<"DB_HOST", "DB_PORT", "DB_USER", "DB_PASSWORD", "DB_NAME">>

EnvKeys == {"DATABASE_URL", "PORT"} \cup {DbKeys[k] : k \in 1..Len(DbKeys)}

\* a value the environment may give each variable, besides the empty text
CustomValue(key) ==
    CASE key = "DATABASE_URL" -> "postgres://app:pw@db.example:5432/app"
      [] key = "DB_HOST" -> "db.internal"
      [] key = "DB_PORT" -> "6543"
      [] key = "DB_USER" -> "app"
      [] key = "DB_PASSWORD" -> "s3cret"
      [] key = "DB_NAME" -> "appdb"
      [] OTHER -> "9090"

\* os.Getenv: the value of the variable, the empty text when it is not set
Getenv(e, key) == IF key \in DOMAIN e THEN e[key] ELSE ""

getEnvIgnoresValue(e, key, fallback) == fallback

getEnv(e, key, fallback) ==
    IF Getenv(e, key) # "" THEN Getenv(e, key) ELSE fallback

\* fmt.Sprintf("host=%s port=%s user=%s password=%s dbname=%s sslmode=require", ...)
Sprintf(host, port, user, password, dbname) ==
    "host=" \o host \o " port=" \o port \o " user=" \o user
        \o " password=" \o password \o " dbname=" \o dbname \o " sslmode=require"

Descriptor(e) ==
    IF Getenv(e, "DATABASE_URL") # ""
    THEN Getenv(e, "DATABASE_URL")
    ELSE Sprintf(getEnv(e, "DB_HOST", "learning-postgres"),
                 getEnv(e, "DB_PORT", "5432"),
                 getEnv(e, "DB_USER", "postgres"),
                 getEnv(e, "DB_PASSWORD", "mysecretpassword"),
                 getEnv(e, "DB_NAME", "learningdb"))

\* every environment over EnvKeys: each variable unset, empty or set (PORT:
\* unset or set)
AllEnvs ==
    UNION { { [k \in S |-> IF k \in T THEN CustomValue(k) ELSE ""]
              : T \in {T \in SUBSET S : "PORT" \in S => "PORT" \in T} }
            : S \in SUBSET EnvKeys }

\* the environment the full service is explored under: the host and the
\* listening port set, the rest left to the defaults
ServeEnvs == { [k \in {"DB_HOST", "PORT"} |-> CustomValue(k)] }

(***************************************************************************)
(* Startup: initDB and the head of main                                    *)
(***************************************************************************)
AllRoutes == {"GET /", "GET /users", "POST /users", "PUT /users/:id", "DELETE /users/:id"}

\* initDB, lines 25-50: resolve the descriptor and sql.Open it
initDB_Open(openOk) ==
    /\ mpc = "start"
    /\ psqlInfo' = Descriptor(env)
    /\ IF openOk
       THEN /\ db' = "open"
            /\ i' = 0
            /\ mpc' = "ping"
            /\ UNCHANGED initErr
       ELSE /\ db' = "nil"
            /\ initErr' = "failed to open database connection"
            /\ mpc' = "returned"
            /\ UNCHANGED i
    /\ UNCHANGED <<env, err, events, routes, listen>>
    /\ UNCHANGED serveVars

\* the loop test i < maxRetries after i++: where the sleep that follows failed
\* attempt n (= i+1) leads
AfterSleep(n) == IF n < maxRetries THEN "ping" ELSE "returned"

\* time.Duration(i+1) * time.Second, in seconds, with n = i+1
SleepSeconds(n) == n

\* initDB, lines 53-58: one db.Ping() of the loop
initDB_Ping(pingOk) ==
    /\ mpc = "ping"
    /\ i < maxRetries
    /\ events' = Append(events, [op |-> "ping", n |-> i + 1, ok |-> pingOk])
    /\ IF pingOk
       THEN /\ err' = NoErr
            /\ initErr' = NoErr
            /\ mpc' = "returned"
       ELSE /\ err' = "ping: connection refused"
            /\ mpc' = "sleep"
            /\ UNCHANGED initErr
    /\ UNCHANGED <<env, psqlInfo, db, i, routes, listen>>
    /\ UNCHANGED serveVars

\* initDB, lines 59-63: the sleep after a failed ping, i++, and the loop test;
\* when the loop ends the error is returned
initDB_Sleep ==
    /\ mpc = "sleep"
    /\ events' = Append(events, [op |-> "sleep", n |-> SleepSeconds(i + 1), ok |-> TRUE])
    /\ i' = i + 1
    /\ mpc' = AfterSleep(i + 1)
    /\ initErr' = IF AfterSleep(i + 1) = "returned"
                  THEN "failed to connect to database after 5 attempts"
                  ELSE initErr
    /\ UNCHANGED <<env, psqlInfo, db, err, routes, listen>>
    /\ UNCHANGED serveVars

FatalNever(e) == FALSE

\* main, line 68: if err := initDB(); err != nil
Fatal(e) == e # NoErr

\* main, lines 68-96: log.Fatalf on an error of initDB, otherwise the routes
\* are registered and r.Run listens
main_AfterInit ==
    /\ mpc = "returned"
    /\ IF Fatal(initErr)
       THEN /\ mpc' = "fatal"
            /\ UNCHANGED <<routes, listen>>
       ELSE /\ routes' = AllRoutes
            /\ listen' = ":" \o getEnv(env, "PORT", "8080")
            /\ mpc' = "serving"
    /\ UNCHANGED <<env, psqlInfo, db, i, err, initErr, events>>
    /\ UNCHANGED serveVars

(***************************************************************************)
(* Requests: JSON bodies, path parameters and the users table              *)
(***************************************************************************)
Handlers == {1, 2}

Fields == {"name", "department", "email"}

Obj(S, n, d, e) ==
    [k \in S |-> IF k = "name" THEN n ELSE IF k = "department" THEN d ELSE e]

\* request bodies: text that is not JSON, a full object (with blanks around
\* the name) and an object without the name member
Bodies ==
    { [wellFormed |-> FALSE, obj |-> Obj({}, "", "", "")],
      [wellFormed |-> TRUE, obj |-> Obj(Fields, " Ann ", "IT", "ann@x.io")],
      [wellFormed |-> TRUE, obj |-> Obj({"department", "email"}, "", "HR", "bob@x.io")] }

NoBody == [wellFormed |-> TRUE, obj |-> Obj({}, "", "", "")]

ZeroUser == [Name |-> "", Department |-> "", Email |-> ""]

\* a field of the decoded struct: the member of the object, or the zero value
Member(obj, k) == IF k \in DOMAIN obj THEN obj[k] ELSE ""

ShouldBindJSONLenient(body) ==
    [err |-> NoErr,
     user |-> [Name |-> Member(body.obj, "name"),
               Department |-> Member(body.obj, "department"),
               Email |-> Member(body.obj, "email")]]

\* c.ShouldBindJSON(&user) on a struct with json tags and no binding tags:
\* text that is not JSON is an error, a missing member leaves the zero value
ShouldBindJSON(body) ==
    IF ~body.wellFormed
    THEN [err |-> "invalid character 'x' looking for beginning of value",
          user |-> ZeroUser]
    ELSE [err |-> NoErr,
          user |-> [Name |-> Member(body.obj, "name"),
                    Department |-> Member(body.obj, "department"),
                    Email |-> Member(body.obj, "email")]]

Digits == <<"1", "2", "3", "4", "5", "6", "7", "8", "9">>

\* c.Param("id") is text: the decimal ids the sequence can give (each absent
\* from the table before its insert and after its delete), and a text that is
\* no number
PathParams == {Digits[n] : n \in 1..MaxSeq} \cup {"abc"}

IsInt(s) == \E n \in 1..Len(Digits) : Digits[n] = s

Atoi(s) == CHOOSE n \in 1..Len(Digits) : Digits[n] = s

Row(id, user) ==
    [id |-> id, name |-> user.Name, department |-> user.Department, email |-> user.Email]

Matches(tbl, n) == {k \in 1..Len(tbl) : tbl[k].id = n}

NextvalReusesCount(tbl, s) == Len(tbl) + 1

\* the id the serial column gives the next row
Nextval(tbl, s) == s + 1

\* INSERT INTO users (name, department, email) VALUES ($1, $2, $3) RETURNING id
QueryInsert(tbl, s, user) ==
    [table |-> Append(tbl, Row(Nextval(tbl, s), user)),
     seq |-> Nextval(tbl, s),
     id |-> Nextval(tbl, s)]

\* UPDATE users SET name = $1, department = $2, email = $3 WHERE id = $4,
\* with $4 the text of the path parameter
ExecUpdate(tbl, user, param) ==
    IF ~IsInt(param)
    THEN [err |-> "pq: invalid input syntax for type integer", table |-> tbl, n |-> 0]
    ELSE [err |-> NoErr,
          table |-> [k \in 1..Len(tbl) |->
                        IF tbl[k].id = Atoi(param)
                        THEN Row(tbl[k].id, user) ELSE tbl[k]],
          n |-> Cardinality(Matches(tbl, Atoi(param)))]

\* DELETE FROM users WHERE id = $1
ExecDelete(tbl, param) ==
    IF ~IsInt(param)
    THEN [err |-> "pq: invalid input syntax for type integer", table |-> tbl, n |-> 0]
    ELSE [err |-> NoErr,
          table |-> SelectSeq(tbl, LAMBDA r : r.id # Atoi(param)),
          n |-> Cardinality(Matches(tbl, Atoi(param)))]

\* a Go slice of maps: nil until the first append
NilUsers == [isNil |-> TRUE, elems |-> <<>>]

GoAppend(users, x) == [isNil |-> FALSE, elems |-> Append(users.elems, x)]

ScanRowSwapped(r) ==
    [id |-> r.id, name |-> r.department, department |-> r.name, email |-> r.email]

\* rows.Scan(&id, &name, &department, &email) and the gin.H built from it
ScanRow(r) ==
    [id |-> r.id, name |-> r.name, department |-> r.department, email |-> r.email]

RECURSIVE ScanLoop(_, _, _, _)
\* the loop of getUsersFromDB from row k on; Scan fails at row scanAt (0: never)
ScanLoop(tbl, k, scanAt, users) ==
    IF k > Len(tbl)
    THEN [users |-> users, err |-> NoErr]
    ELSE IF k = scanAt
         THEN [users |-> NilUsers, err |-> "sql: Scan error on column index 1"]
         ELSE ScanLoop(tbl, k + 1, scanAt, GoAppend(users, ScanRow(tbl[k])))

\* getUsersFromDB: SELECT id, name, department, email FROM users
getUsersFromDB(tbl, queryErr, scanAt) ==
    IF queryErr
    THEN [users |-> NilUsers, err |-> "driver: bad connection"]
    ELSE ScanLoop(tbl, 1, scanAt, NilUsers)

\* c.JSON bodies
NoResp == [json |-> "none", items |-> <<>>, error |-> "", message |-> "", id |-> 0]

JSONError(msg) == [NoResp EXCEPT !.json = "object", !.error = msg]

JSONMessage(msg) == [NoResp EXCEPT !.json = "object", !.message = msg]

JSONId(n) == [NoResp EXCEPT !.json = "object", !.id = n]

\* encoding/json of a slice: null for the nil slice, an array otherwise
JSONUsers(users) ==
    IF users.isNil
    THEN [NoResp EXCEPT !.json = "null"]
    ELSE [NoResp EXCEPT !.json = "array", !.items = users.elems]

\* the successful POSTs whose row a statement on param leaves alone
Untouched(log, param) == SelectSeq(log, LAMBDA c : c.id # Atoi(param))

\* a handler goroutine: idle, or inside createUser between the bind and the INSERT
IdleH == [pc |-> "idle", body |-> NoBody, user |-> ZeroUser]

Free(h) == mpc = "serving" /\ hs[h].pc = "idle"

\* a finished exchange: the request, the response written for it, and the
\* errors its steps returned
Exchange(kind, body, param, status, resp, raised) ==
    [kind |-> kind, body |-> body, param |-> param,
     status |-> status, resp |-> resp, raised |-> raised]

NoExchange == Exchange("", NoBody, "", 0, NoResp, {})

BadConn == "driver: bad connection"

NoCount == "no RowsAffected available"

MapAffectedAlwaysOk(rowsAffected, okMessage) ==
    [status |-> 200, resp |-> JSONMessage(okMessage)]

\* lines 146-151 and 165-170: zero affected rows is 404, anything else 200
MapAffected(rowsAffected, okMessage) ==
    IF rowsAffected = 0
    THEN [status |-> 404, resp |-> JSONError("User not found")]
    ELSE [status |-> 200, resp |-> JSONMessage(okMessage)]

\* result.RowsAffected(): the counts the call may hand back
Counts(n, countErr) == IF countErr THEN {0, n} ELSE {n}

\* GET /users, lines 80-88, the whole handler: one SELECT and its response
getUsers(queryErr, scanAt) ==
    /\ mpc = "serving"
    /\ LET r == getUsersFromDB(table, queryErr, scanAt) IN
       last' = IF r.err # NoErr
               THEN Exchange("GET", NoBody, "", 500, JSONError(r.err), {r.err})
               ELSE Exchange("GET", NoBody, "", 200, JSONUsers(r.users), {})
    /\ served' = TRUE
    /\ UNCHANGED <<table, seq, hs, issued, intact>>
    /\ UNCHANGED startupVars

\* createUser, lines 101-110: the request is bound; a failure is answered 400
createUser_Bind(h, body) ==
    /\ Free(h)
    /\ LET b == ShouldBindJSON(body) IN
       IF b.err # NoErr
       THEN /\ last' = Exchange("POST", body, "", 400,
                                JSONError(b.err), {b.err})
            /\ served' = TRUE
            /\ UNCHANGED hs
       ELSE /\ hs' = [hs EXCEPT ![h] = [pc |-> "bound", body |-> body, user |-> b.user]]
            /\ UNCHANGED <<last, served>>
    /\ UNCHANGED <<table, seq, issued, intact>>
    /\ UNCHANGED startupVars

\* createUser, lines 112-121: the INSERT ... RETURNING id and the response
createUser_Exec(h, dbErr) ==
    /\ mpc = "serving"
    /\ hs[h].pc = "bound"
    /\ seq < MaxSeq
    /\ IF dbErr
       THEN /\ last' = Exchange("POST", hs[h].body, "", 500,
                                JSONError(BadConn), {BadConn})
            /\ UNCHANGED <<table, seq, issued, intact>>
       ELSE LET r == QueryInsert(table, seq, hs[h].user) IN
            /\ table' = r.table
            /\ seq' = r.seq
            /\ issued' = Append(issued, r.id)
            /\ intact' = Append(intact, [id |-> r.id, payload |-> hs[h].body.obj])
            /\ last' = Exchange("POST", hs[h].body, "", 200,
                                JSONId(r.id), {})
    /\ hs' = [hs EXCEPT ![h] = IdleH]
    /\ served' = TRUE
    /\ UNCHANGED startupVars

\* updateUser, lines 125-152, the whole handler: the bind, the UPDATE,
\* RowsAffected with its error dropped, and the response
updateUser(param, body) ==
    /\ mpc = "serving"
    /\ LET b == ShouldBindJSON(body)
           r == ExecUpdate(table, b.user, param)
       IN IF b.err # NoErr
          THEN /\ last' = Exchange("PUT", body, param, 400, JSONError(b.err), {b.err})
               /\ UNCHANGED <<table, intact>>
          ELSE \E dbErr \in BOOLEAN :
               LET stmtErr == IF dbErr THEN BadConn ELSE r.err IN
               IF stmtErr # NoErr
               THEN /\ last' = Exchange("PUT", body, param, 500,
                                        JSONError(stmtErr), {stmtErr})
                    /\ UNCHANGED <<table, intact>>
               ELSE /\ table' = r.table
                    /\ intact' = Untouched(intact, param)
                    /\ \E countErr \in BOOLEAN :
                       \E rowsAffected \in Counts(r.n, countErr) :
                         LET m == MapAffected(rowsAffected, "User updated") IN
                         last' = Exchange("PUT", body, param, m.status, m.resp,
                                          IF countErr THEN {NoCount} ELSE {})
    /\ served' = TRUE
    /\ UNCHANGED <<seq, hs, issued>>
    /\ UNCHANGED startupVars

\* deleteUser, lines 155-171, the whole handler: the DELETE, RowsAffected with
\* its error dropped, and the response
deleteUser(param) ==
    /\ mpc = "serving"
    /\ LET r == ExecDelete(table, param) IN
       \E dbErr \in BOOLEAN :
       LET stmtErr == IF dbErr THEN BadConn ELSE r.err IN
       IF stmtErr # NoErr
       THEN /\ last' = Exchange("DELETE", NoBody, param, 500,
                                JSONError(stmtErr), {stmtErr})
            /\ UNCHANGED <<table, intact>>
       ELSE /\ table' = r.table
            /\ intact' = Untouched(intact, param)
            /\ \E countErr \in BOOLEAN :
               \E rowsAffected \in Counts(r.n, countErr) :
                 LET m == MapAffected(rowsAffected, "User deleted") IN
                 last' = Exchange("DELETE", NoBody, param, m.status, m.resp,
                                  IF countErr THEN {NoCount} ELSE {})
    /\ served' = TRUE
    /\ UNCHANGED <<seq, hs, issued>>
    /\ UNCHANGED startupVars

InitServe ==
    /\ table = <<>>
    /\ seq = 0
    /\ hs = [h \in Handlers |-> IdleH]
    /\ last = NoExchange
    /\ issued = <<>>
    /\ intact = <<>>
    /\ served = FALSE

InitStartup ==
    /\ mpc = "start"
    /\ psqlInfo = ""
    /\ db = "nil"
    /\ i = 0
    /\ err = NoErr
    /\ initErr = NoErr
    /\ events = <<>>
    /\ routes = {}
    /\ listen = ""

InitCfg == env \in AllEnvs /\ InitStartup /\ InitServe

\* every startup, under every environment, of a service that is then asked
\* to list its users
NextStartup ==
    \/ \E openOk \in BOOLEAN : initDB_Open(openOk)
    \/ \E pingOk \in BOOLEAN : initDB_Ping(pingOk)
    \/ initDB_Sleep
    \/ main_AfterInit
    \/ \E queryErr \in BOOLEAN : getUsers(queryErr, 0)

SpecStartup == InitCfg /\ [][NextStartup]_vars

Init == env \in ServeEnvs /\ InitStartup /\ InitServe

\* the service whose database answers the first ping, handling every request
Next ==
    \/ \E openOk \in BOOLEAN : initDB_Open(openOk)
    \/ initDB_Ping(TRUE)
    \/ main_AfterInit
    \/ \E queryErr \in BOOLEAN, scanAt \in 0..Len(table) : getUsers(queryErr, scanAt)
    \/ \E h \in Handlers, body \in Bodies : createUser_Bind(h, body)
    \/ \E h \in Handlers, dbErr \in BOOLEAN : createUser_Exec(h, dbErr)
    \/ \E param \in PathParams, body \in Bodies : updateUser(param, body)
    \/ \E param \in PathParams : deleteUser(param)

Spec == Init /\ [][Next]_vars

(***************************************************************************)
(* Startup claims, checked under SpecStartup                               *)
(***************************************************************************)
Pings == {k \in 1..Len(events) : events[k].op = "ping"}

FailedPings == {k \in Pings : ~events[k].ok}

\* C1: the process serves (routes registered, listening, requests answered)
\* exactly when one of the first maxRetries pings succeeded: initDB returns nil
\* after N failed pings and one successful ping, N < maxRetries, and main then
\* registers the routes; after maxRetries failed pings, and no more, initDB
\* returns an error, main aborts, and in the aborted process no route is
\* registered, nothing is served and nothing can happen any more.
C1_ServesIffAPingSucceeds ==
    /\ (mpc \in {"returned", "serving"} /\ initErr = NoErr) =>
          /\ Cardinality(Pings) = Cardinality(FailedPings) + 1
          /\ Cardinality(FailedPings) < maxRetries
          /\ events[Len(events)] = [op |-> "ping", n |-> Cardinality(Pings), ok |-> TRUE]
    /\ (mpc = "returned" /\ initErr = NoErr) => ENABLED main_AfterInit
    /\ mpc = "serving" => initErr = NoErr /\ db = "open" /\ routes = AllRoutes /\ listen # ""
    /\ (mpc \in {"returned", "fatal"} /\ initErr # NoErr /\ db = "open") =>
          /\ Cardinality(Pings) = maxRetries
          /\ FailedPings = Pings
    /\ (Cardinality(FailedPings) = maxRetries /\ mpc # "sleep") =>
          mpc \in {"returned", "fatal"} /\ initErr # NoErr
    /\ mpc # "serving" => routes = {} /\ ~served /\ last = NoExchange /\ listen = ""
    /\ mpc = "fatal" => initErr # NoErr /\ ~ENABLED NextStartup

\* C1's case: four failed pings, the fifth succeeds, and a request was served
C1_Witness ==
    /\ mpc = "serving"
    /\ Cardinality(FailedPings) = maxRetries - 1
    /\ served

\* C10 as claimed: every wait follows the failed attempt it is named after,
\* lasts as many seconds as that attempt's number, and is followed by the next
\* ping attempt, so that a wait is never the last thing initDB does.
C10_EveryWaitIsBetweenTwoPings ==
    \A k \in 1..Len(events) :
        events[k].op = "sleep" =>
            /\ k > 1
            /\ events[k - 1] = [op |-> "ping", n |-> events[k].n, ok |-> FALSE]
            /\ IF k < Len(events)
               THEN events[k + 1].op = "ping" /\ events[k + 1].n = events[k].n + 1
               ELSE mpc = "ping"

\* the value a variable contributes: its text when set to a non-empty text
Chosen(key, default) ==
    IF key \in DOMAIN env /\ env[key] # "" THEN env[key] ELSE default

\* C9: once resolved, the descriptor is the value of DATABASE_URL when that is
\* set and not empty, whatever the five fields are; otherwise it is the format
\* filled, field by field, with the variable's text when set and not empty and
\* with the field's default when unset or empty. Resolution has no failure:
\* it is possible under every environment and leaves a descriptor.
C9_DescriptorPriority ==
    /\ mpc = "start" => ENABLED initDB_Open(TRUE)
    /\ mpc # "start" =>
          /\ psqlInfo # ""
          /\ IF "DATABASE_URL" \in DOMAIN env /\ env["DATABASE_URL"] # ""
             THEN psqlInfo = env["DATABASE_URL"]
             ELSE psqlInfo =
                    "host=" \o Chosen("DB_HOST", "learning-postgres")
                    \o " port=" \o Chosen("DB_PORT", "5432")
                    \o " user=" \o Chosen("DB_USER", "postgres")
                    \o " password=" \o Chosen("DB_PASSWORD", "mysecretpassword")
                    \o " dbname=" \o Chosen("DB_NAME", "learningdb")
                    \o " sslmode=require"

\* C9's case: DATABASE_URL set but empty, the host set, the port unset, the
\* user set but empty: the descriptor mixes a given value with defaults
C9_Witness ==
    /\ mpc # "start"
    /\ "DATABASE_URL" \in DOMAIN env /\ env["DATABASE_URL"] = ""
    /\ "DB_HOST" \in DOMAIN env /\ env["DB_HOST"] = "db.internal"
    /\ "DB_PORT" \notin DOMAIN env
    /\ "DB_USER" \in DOMAIN env /\ env["DB_USER"] = ""
    /\ psqlInfo = "host=db.internal port=5432 user=postgres"
                  \o " password=mysecretpassword dbname=learningdb sslmode=require"

(***************************************************************************)
(* Request claims, checked under Spec                                      *)
(***************************************************************************)
\* a step that finishes an exchange of one of the kinds
Finishes(kinds) == last' # last /\ last'.kind \in kinds

\* the path parameter is the text of no stored row's id
NoRow(tbl, param) == \A k \in 1..Len(tbl) : Digits[tbl[k].id] # param

\* C2 as claimed: a GET /users whose SELECT finds no rows and raises no error
\* is answered 200 with an empty array, not null.
C2_EmptyTableListsAsEmptyArray ==
    [][(Finishes({"GET"}) /\ table = <<>> /\ last'.raised = {}) =>
          /\ last'.status = 200
          /\ last'.resp.json = "array"
          /\ last'.resp.items = <<>>]_vars

\* C3: a POST /users or PUT /users/:id whose body is not JSON is answered 400
\* with an error message, and the step that answers it leaves the table and
\* the id sequence as they were, whatever the table holds and whatever the id.
C3_MalformedBodyIs400AndNoWrite ==
    [][(Finishes({"POST", "PUT"}) /\ ~last'.body.wellFormed) =>
          /\ last'.status = 400
          /\ last'.resp.json = "object"
          /\ last'.resp.error # ""
          /\ table' = table
          /\ seq' = seq]_vars

\* C3's case: a PUT with a body that is not JSON, naming a stored row, was
\* answered 400
C3_Witness ==
    /\ last.kind = "PUT"
    /\ ~last.body.wellFormed
    /\ last.status = 400
    /\ ~NoRow(table, last.param)

\* C4 as claimed: a PUT (well-formed body) or DELETE whose id matches no
\* stored row is answered 404 "User not found" and leaves the table as it was.
C4_AbsentIdIsAlways404 ==
    [][(Finishes({"PUT", "DELETE"}) /\ last'.body.wellFormed /\ NoRow(table, last'.param)) =>
          /\ last'.status = 404
          /\ last'.resp.error = "User not found"
          /\ table' = table]_vars

StatementErrors == {BadConn, "pq: invalid input syntax for type integer"}

\* C4, amended: a PUT (well-formed body) or DELETE whose id matches no stored
\* row leaves the table as it was; it is answered 404 "User not found" when
\* the statement executes, and 500 with the statement's error message when the
\* statement fails (an id that is no number, a failed connection).
C4_AbsentIdIs404UnlessStatementFails ==
    [][(Finishes({"PUT", "DELETE"}) /\ last'.body.wellFormed /\ NoRow(table, last'.param)) =>
          /\ table' = table
          /\ IF last'.raised \cap StatementErrors = {}
             THEN last'.status = 404 /\ last'.resp.error = "User not found"
             ELSE last'.status = 500 /\ last'.resp.error \in last'.raised]_vars

\* C4's case: a PUT with a full body on an id that is stored no more, while
\* another row is stored, was answered 404
C4_Witness ==
    /\ last.kind = "PUT"
    /\ last.body.wellFormed
    /\ last.status = 404
    /\ last.param = "1"
    /\ NoRow(table, "1")
    /\ table # <<>>

ItemsWithId(items, id) == {k \in 1..Len(items) : items[k].id = id}

C6_DistinctIdsNoLostWrites ==
    /\ \A j, k \in 1..Len(issued) : j # k => issued[j] # issued[k]
    /\ \A j, k \in 1..Len(table) : j # k => table[j].id # table[k].id
    /\ \A c \in 1..Len(intact) :
          /\ intact[c].id \in {issued[k] : k \in 1..Len(issued)}
          /\ Cardinality(Matches(table, intact[c].id)) = 1
          /\ \A k \in Matches(table, intact[c].id) :
                /\ table[k].name = Member(intact[c].payload, "name")
                /\ table[k].department = Member(intact[c].payload, "department")
                /\ table[k].email = Member(intact[c].payload, "email")
    /\ (last.kind = "POST" /\ last.status = 200) =>
          last.resp.id \in {issued[k] : k \in 1..Len(issued)}

\* C6's case: two POSTs succeeded, their rows are stored, and a third was
\* bound and in flight while they ran
C6_Witness ==
    /\ Len(issued) = 2
    /\ Len(intact) = 2
    /\ Len(table) = 2
    /\ \E h \in Handlers : hs[h].pc = "bound"

\* C7 as claimed: when a step of the handling returned an error, the response
\* is an error response carrying that error's message.
C7_NoErrorIsDropped ==
    last.raised # {} =>
        /\ last.status >= 400
        /\ last.resp.error \in last.raised

\* C8 as claimed: a POST or PUT body that is JSON but lacks one of name,
\* department, email is answered 400, and nothing is written.
C8_MissingFieldIs400 ==
    [][(Finishes({"POST", "PUT"}) /\ last'.body.wellFormed
            /\ DOMAIN last'.body.obj # Fields) =>
          /\ last'.status = 400
          /\ table' = table]_vars

====
